---- MODULE Spec2Model ----
(***************************************************************************)
(* Terraria NPC happiness simulator (src/src/app/page.tsx).                *)
(*                                                                         *)
(* The page component keeps the layout (`placements`), the id counter      *)
(* (`nextId`) and the loaded dataset (`npcs`, `biomes`) in React state.    *)
(* Event handlers mutate the layout with functional updates; after every   *)
(* commit React runs the component's effects: the initialisation effect,   *)
(* the average effect and the recompute effect.                            *)
(*                                                                         *)
(* Numbers.  A per-NPC price is a product of two-decimal multipliers and   *)
(* is never rounded by the code, so it is kept exactly as a fixed-point    *)
(* decimal: a little-endian sequence of limbs in base 10^4, FracLimbs of   *)
(* them after the decimal point and one before it.  House prices and the   *)
(* global average always come out of toFixed(2) (or are the literal 1.0)   *)
(* and are kept as integers in hundredths (1.0 is 100).  toFixed(2) is     *)
(* modelled on the exact decimal value, rounding half up.                  *)
(***************************************************************************)
EXTENDS Integers, Sequences, FiniteSets, TLC

\* ------------------------------------------------------------------------
\* Bounds of the model
\* ------------------------------------------------------------------------

\* limbs after the decimal point: 4 * FracLimbs decimal digits are exact,
\* enough for FracLimbs * 2 successive multiplications by a multiplier
FracLimbs == 5

\* handler calls in one session
MaxCalls == 3

\* ------------------------------------------------------------------------
\* Exact decimal arithmetic
\* ------------------------------------------------------------------------

LimbBase == 100 * 100

NumLimbs == FracLimbs + 1

\* the number h / 100 as a fixed-point decimal
FromHundredths(h) ==
    [i \in 1..NumLimbs |->
        IF i = NumLimbs THEN h \div 100
        ELSE IF i = FracLimbs THEN (h % 100) * 100
        ELSE 0]

One == FromHundredths(100)

RECURSIVE MulFrom(_, _, _, _)
MulFrom(x, m, i, carry) ==
    IF i > Len(x) THEN <<>>
    ELSE LET t == x[i] * m + carry
         IN  <<IF i = Len(x) THEN t ELSE t % LimbBase>>
             \o MulFrom(x, m, i + 1, t \div LimbBase)

\* x * m for a small natural m
MulSmall(x, m) == MulFrom(x, m, 1, 0)

RECURSIVE DivFrom(_, _, _, _)
DivFrom(x, d, i, rem) ==
    IF i = 0 THEN <<>>
    ELSE LET t == rem * LimbBase + x[i]
         IN  DivFrom(x, d, i - 1, t % d) \o <<t \div d>>

\* x / d for a small positive d (truncated after the last limb)
DivSmall(x, d) == DivFrom(x, d, Len(x), 0)

RECURSIVE AddFrom(_, _, _, _)
AddFrom(x, y, i, carry) ==
    IF i > Len(x) THEN <<>>
    ELSE LET t == x[i] + y[i] + carry
         IN  <<IF i = Len(x) THEN t ELSE t % LimbBase>>
             \o AddFrom(x, y, i + 1, t \div LimbBase)

Add(x, y) == AddFrom(x, y, 1, 0)

Zero == FromHundredths(0)

\* x *= m / 100, the code's `price *= 0.88` with m = 88
Times(x, m) == DivSmall(MulSmall(x, m), 100)

RECURSIVE LessEqFrom(_, _, _)
LessEqFrom(x, y, i) ==
    IF i = 0 THEN TRUE
    ELSE IF x[i] < y[i] THEN TRUE
    ELSE IF x[i] > y[i] THEN FALSE
    ELSE LessEqFrom(x, y, i - 1)

\* x <= y
LessEq(x, y) == LessEqFrom(x, y, Len(x))

\* parseFloat(x.toFixed(2)) in hundredths
toFixed2(x) ==
    LET whole == x[NumLimbs] * 100 + (x[FracLimbs] \div 100)
        rest  == x[FracLimbs] % 100
    IN  IF rest >= 50 THEN whole + 1 ELSE whole

\* ------------------------------------------------------------------------
\* Dataset (NpcJson) and the NPC class
\* ------------------------------------------------------------------------

\* /data/vanilla.json as the model loads it: per NPC its biome affinities
\* and its relationships (an absent key is a missing JSON entry)
VanillaJson ==
    [guide    |-> [biome |-> [forest |-> 2],
                   npc   |-> <<>>],
     merchant |-> [biome |-> [forest |-> 1, desert |-> -1],
                   npc   |-> [guide |-> 1]]]

\* biome keys of VanillaJson, sorted, with "forest" moved to the front
BiomeList == <<"forest", "desert">>

\* NPC.name: snake_case id to Title Case
NpcName(npc) ==
    CASE npc = "guide"    -> "Guide"
      [] npc = "merchant" -> "Merchant"
      [] npc = "princess" -> "Princess"
      [] npc = "nurse"    -> "Nurse"
      [] npc = "dryad"    -> "Dryad"
      [] npc = "angler"   -> "Angler"
      [] npc = "bandit"   -> "Bandit"
      [] OTHER            -> npc

\* toTitleCase of a biome name
toTitleCase(s) ==
    CASE s = "forest"      -> "Forest"
      [] s = "desert"      -> "Desert"
      [] s = "cavern"      -> "Cavern"
      [] s = "corruption"  -> "Corruption"
      [] s = "crimson"     -> "Crimson"
      [] s = "hallow"      -> "Hallow"
      [] s = "jungle"      -> "Jungle"
      [] s = "mushroom"    -> "Mushroom"
      [] s = "ocean"       -> "Ocean"
      [] s = "snow"        -> "Snow"
      [] s = "space"       -> "Space"
      [] s = "underground" -> "Underground"
      [] OTHER             -> s

\* NPC.hasShop: capability flag of the NPC record
hasShop(npc) == npc \in {"merchant", "nurse"}

\* ------------------------------------------------------------------------
\* State
\* ------------------------------------------------------------------------

VARIABLES
    placements,         \* House[]: the layout, in array order
    nextId,             \* id for the next house
    renderedNextId,     \* nextId as captured by the handlers of the last render
    npcData,            \* the loaded NpcJson, {} before the load
    biomes,             \* known biome names
    isLoading,          \* dataset not loaded yet
    initialSetupDone,   \* ref: initial houses were created
    averageHappiness,   \* displayed global average, in hundredths
    pc,                 \* "idle", or "effects" when a commit is pending
    created,            \* history: ids handed out by addHouse so far
    calls,              \* history: number of handler calls so far
    lastOp              \* history: the handler call of the last step

vars == <<placements, nextId, renderedNextId, npcData, biomes, isLoading,
          initialSetupDone, averageHappiness, pc, created, calls, lastOp>>

\* keys of the Map<string, NPC> built from npcData
npcs == DOMAIN npcData

\* NPC.getValueForBiome: this.npcData.biome[biome] || 0
getValueForBiome(npc, biome) ==
    IF biome \in DOMAIN npcData[npc].biome THEN npcData[npc].biome[biome] ELSE 0

\* NPC.getValueForNpc: this.npcData.npc[npc] || 0
getValueForNpc(npc, other) ==
    IF other \in DOMAIN npcData[npc].npc THEN npcData[npc].npc[other] ELSE 0

\* a fresh house as addHouse and initializeHouses create it
NewHouse(id, biome) ==
    [id |-> id, biome |-> biome, buyPrice |-> 100, sellPrice |-> 100,
     isPylonEligible |-> FALSE, npcPrices |-> <<>>]

\* a fresh occupant entry as placeNPC creates it
NewNpcPrice(npc) ==
    [npc |-> npc, buyPrice |-> One, sellPrice |-> One, factors |-> <<>>]

Range(f) == {f[i] : i \in DOMAIN f}

\* house.npcPrices.map((p) => p.npc)
Occupants(house) == [i \in 1..Len(house.npcPrices) |-> house.npcPrices[i].npc]

\* house.npcPrices.some((info) => info.npc === npc)
HasNpc(house, npc) == \E i \in 1..Len(house.npcPrices) : house.npcPrices[i].npc = npc

\* prevPlacements.find((house) => house.id === houseId) is defined
HouseExists(prev, houseId) == \E i \in 1..Len(prev) : prev[i].id = houseId

\* ------------------------------------------------------------------------
\* Price engine (the recompute effect's local functions)
\* ------------------------------------------------------------------------

\* npcs.get(neighbour)?.name || neighbour
DisplayName(npc) == IF npc \in npcs THEN NpcName(npc) ELSE npc

\* buyPrice *= b / 100; sellPrice *= s / 100
Scale(r, b, s) ==
    [r EXCEPT !.buyPrice = Times(@, b), !.sellPrice = Times(@, s)]

\* the same with the factor put in front of the list
ScalePush_prepends(r, b, s, f) ==
    [Scale(r, b, s) EXCEPT !.factors = <<f>> \o @]

\* the same, followed by factors.push(f)
ScalePush(r, b, s, f) ==
    [Scale(r, b, s) EXCEPT !.factors = Append(@, f)]

\* the tiers with every other score treated as a liking
ApplyScore_likesZero(r, score, what) ==
    CASE score = 2  -> ScalePush(r, 88, 114, <<"Loves ", what[1], what[2]>>)
      [] score = -1 -> ScalePush(r, 106, 94, <<"Dislikes ", what[1], what[2]>>)
      [] score = -2 -> ScalePush(r, 112, 89, <<"Hates ", what[1], what[2]>>)
      [] OTHER      -> ScalePush(r, 94, 106, <<"Likes ", what[1], what[2]>>)

\* the four `if (score === ...)` tiers shared by the biome and the
\* relationship term; what = <<displayed name, suffix>>
ApplyScore(r, score, what) ==
    CASE score = 2  -> ScalePush(r, 88, 114, <<"Loves ", what[1], what[2]>>)
      [] score = 1  -> ScalePush(r, 94, 106, <<"Likes ", what[1], what[2]>>)
      [] score = -1 -> ScalePush(r, 106, 94, <<"Dislikes ", what[1], what[2]>>)
      [] score = -2 -> ScalePush(r, 112, 89, <<"Hates ", what[1], what[2]>>)
      [] OTHER      -> r

\* for (let i = 3; i < neighbours.length; i++) { buy *= 1.05; sell *= 0.95 }
RECURSIVE Overcrowd(_, _, _)
Overcrowd(r, i, n) ==
    IF i >= n THEN r ELSE Overcrowd(Scale(r, 105, 95), i + 1, n)

\* for (let i = 0; i < loves; i++): princess loves neighbours[i]
RECURSIVE PrincessLoves(_, _, _, _)
PrincessLoves(r, neighbours, i, loves) ==
    IF i > loves THEN r
    ELSE PrincessLoves(
            ScalePush(r, 88, 114,
                <<"Princess loves up to 3 neighbours (", DisplayName(neighbours[i]), ")">>),
            neighbours, i + 1, loves)

\* for (const neighbour of neighbours): relationship term
RECURSIVE Relationships(_, _, _, _)
Relationships(r, npc, neighbours, i) ==
    IF i > Len(neighbours) THEN r
    ELSE Relationships(
            ApplyScore(r, getValueForNpc(npc, neighbours[i]),
                       <<DisplayName(neighbours[i]), "">>),
            npc, neighbours, i + 1)

Min(a, b) == IF a < b THEN a ELSE b

\* if (neighbours.length < 3): solitude bonus
Solitude(r, n) ==
    IF n < 3
    THEN ScalePush(r, 95, 105, <<"Solitude bonus: Only ", ToString(n), " neighbours">>)
    ELSE r

\* overcrowding penalty that counts every neighbour, not only those past three
Crowding_countsAll(r, n) ==
    IF n > 3
    THEN [Overcrowd(r, 0, n) EXCEPT !.factors =
             Append(@, <<"Overcrowding penalty: ", ToString(n), " neighbours">>)]
    ELSE r

\* if (neighbours.length > 3): overcrowding penalty
Crowding(r, n) ==
    IF n > 3
    THEN [Overcrowd(r, 3, n) EXCEPT !.factors =
             Append(@, <<"Overcrowding penalty: ", ToString(n), " neighbours">>)]
    ELSE r

\* princess love that is not limited to three neighbours
Princess_lovesAll(r, npc, neighbours, n) ==
    IF npc = "princess" THEN PrincessLoves(r, neighbours, 1, n) ELSE r

\* if (npc === "princess"): she loves up to three neighbours
Princess(r, npc, neighbours, n) ==
    IF npc = "princess" THEN PrincessLoves(r, neighbours, 1, Min(n, 3)) ELSE r

\* the terms after the biome term when the lonely princess does not return
\* early
NeighbourTerms_noEarlyReturn(afterBiome, npc, neighbours, n) ==
    Relationships(
        Princess(
            Crowding(
                Solitude(
                    IF n < 2 /\ npc = "princess"
                    THEN [buyPrice  |-> FromHundredths(150),
                          sellPrice |-> FromHundredths(50),
                          factors   |-> Append(afterBiome.factors,
                                <<"Princess solitude penalty: Only ", ToString(n),
                                  " neighbours">>)]
                    ELSE afterBiome,
                    n),
                n),
            npc, neighbours, n),
        npc, neighbours, 1)

\* the terms after the biome term; n = neighbours.length
NeighbourTerms(afterBiome, npc, neighbours, n) ==
    IF n < 2 /\ npc = "princess"
    THEN [buyPrice  |-> FromHundredths(150),
          sellPrice |-> FromHundredths(50),
          factors   |-> Append(afterBiome.factors,
                            <<"Princess solitude penalty: Only ", ToString(n), " neighbours">>)]
    ELSE Relationships(
            Princess(Crowding(Solitude(afterBiome, n), n), npc, neighbours, n),
            npc, neighbours, 1)

\* the neighbours without the occupants the dataset does not know
Neighbours_knownOnly(npc, house) ==
    SelectSeq(Occupants(house), LAMBDA other : other # npc /\ other \in npcs)

\* house.npcPrices.filter((info) => info.npc !== npc).map((info) => info.npc)
Neighbours(npc, house) == SelectSeq(Occupants(house), LAMBDA other : other # npc)

\* Array.prototype.sort by (a, b) => a.id - b.id: stable insertion of a house
\* into a list that is sorted by id
RECURSIVE InsertById(_, _)
InsertById(sorted, house) ==
    IF sorted = <<>> THEN <<house>>
    ELSE IF sorted[Len(sorted)].id <= house.id THEN Append(sorted, house)
    ELSE Append(InsertById(SubSeq(sorted, 1, Len(sorted) - 1), house),
                sorted[Len(sorted)])

RECURSIVE SortedUpTo(_, _)
SortedUpTo(houses, k) ==
    IF k = 0 THEN <<>> ELSE InsertById(SortedUpTo(houses, k - 1), houses[k])

\* the array order taken as the neighbour order
SortById_keepsOrder(houses) == houses

\* [...currentPlacements].sort((a, b) => a.id - b.id)
SortById(houses) == SortedUpTo(houses, Len(houses))

\* sortedPlacements.findIndex((house) => house.id === houseId), 0 for -1
FindIndexById(sorted, houseId) ==
    IF \E i \in 1..Len(sorted) : sorted[i].id = houseId
    THEN CHOOSE i \in 1..Len(sorted) :
            /\ sorted[i].id = houseId
            /\ \A j \in 1..(i - 1) : sorted[j].id # houseId
    ELSE 0

\* the left then the right neighbour of sorted[k], each only if occupied
OccupiedBeside(sorted, k) ==
    (IF k > 1 /\ Len(sorted[k - 1].npcPrices) > 0 THEN <<sorted[k - 1]>> ELSE <<>>)
    \o (IF k < Len(sorted) /\ Len(sorted[k + 1].npcPrices) > 0
        THEN <<sorted[k + 1]>> ELSE <<>>)

\* findNeighbors of the earlier page component
findNeighbors(houseId, currentPlacements) ==
    IF FindIndexById(SortById(currentPlacements), houseId) = 0 THEN <<>>
    ELSE OccupiedBeside(SortById(currentPlacements),
                        FindIndexById(SortById(currentPlacements), houseId))

\* the occupants of the given houses, house after house
RECURSIVE OccupantsOfAll(_, _)
OccupantsOfAll(houses, k) ==
    IF k = 0 THEN <<>> ELSE OccupantsOfAll(houses, k - 1) \o Occupants(houses[k])

\* a relationship with an NPC of an adjacent house at the weaker tier
RECURSIVE ExternalTerm(_, _, _, _)
ExternalTerm(r, npc, others, i) ==
    IF i > Len(others) THEN r
    ELSE ExternalTerm(
            IF getValueForNpc(npc, others[i]) > 0 THEN Scale(r, 94, 106)
            ELSE IF getValueForNpc(npc, others[i]) < 0 THEN Scale(r, 106, 94)
            ELSE r,
            npc, others, i + 1)

\* the computation with a term for the NPCs of the adjacent houses
calculateSingleNpcPrices_withExternal(npc, house) ==
    IF npc = "" \/ npc \notin npcs
    THEN [buyPrice |-> One, sellPrice |-> One, factors |-> <<>>]
    ELSE ExternalTerm(
            NeighbourTerms(
                ApplyScore([buyPrice |-> One, sellPrice |-> One, factors |-> <<>>],
                           getValueForBiome(npc, house.biome),
                           <<toTitleCase(house.biome), " biome">>),
                npc, Neighbours(npc, house), Len(Neighbours(npc, house))),
            npc,
            OccupantsOfAll(findNeighbors(house.id, placements),
                           Len(findNeighbors(house.id, placements))),
            1)

calculateSingleNpcPrices(npc, house) ==
    IF npc = "" \/ npc \notin npcs
    THEN [buyPrice |-> One, sellPrice |-> One, factors |-> <<>>]
    ELSE NeighbourTerms(
            ApplyScore([buyPrice |-> One, sellPrice |-> One, factors |-> <<>>],
                       getValueForBiome(npc, house.biome),
                       <<toTitleCase(house.biome), " biome">>),
            npc, Neighbours(npc, house), Len(Neighbours(npc, house)))

\* checkPylonEligibility with the boundary 0.9 itself excluded
checkPylonEligibility_strict(house) ==
    /\ Len(house.npcPrices) >= 2
    /\ \E i \in 1..Len(house.npcPrices) :
        /\ house.npcPrices[i].npc \in npcs
        /\ hasShop(house.npcPrices[i].npc)
        /\ LessEq(house.npcPrices[i].buyPrice, FromHundredths(90))
        /\ house.npcPrices[i].buyPrice # FromHundredths(90)

checkPylonEligibility(house) ==
    IF Len(house.npcPrices) < 2 THEN FALSE
    ELSE
    LET shopNpcs == SelectSeq(house.npcPrices,
                        LAMBDA info : info.npc \in npcs /\ hasShop(info.npc))
    IN  IF Len(shopNpcs) < 1 THEN FALSE
        ELSE \E i \in 1..Len(shopNpcs) :
                /\ shopNpcs[i].npc \in npcs
                /\ hasShop(shopNpcs[i].npc)
                /\ LessEq(shopNpcs[i].buyPrice, FromHundredths(90))

\* updatedNpcPrices.reduce((sum, info) => sum + info.<field>, 0)
RECURSIVE SumPrices(_, _, _)
SumPrices(prices, field, i) ==
    IF i = 0 THEN Zero
    ELSE Add(SumPrices(prices, field, i - 1), prices[i][field])

\* the averages cut off after two decimals instead of rounded
WithAverages_truncates(house, updatedNpcPrices, cnt) ==
    [house EXCEPT
        !.buyPrice  = toFixed2(DivSmall(SumPrices(updatedNpcPrices, "buyPrice", cnt), cnt))
                        - (IF DivSmall(SumPrices(updatedNpcPrices, "buyPrice", cnt), cnt)[FracLimbs] % 100 >= 50
                           THEN 1 ELSE 0),
        !.sellPrice = toFixed2(DivSmall(SumPrices(updatedNpcPrices, "sellPrice", cnt), cnt))
                        - (IF DivSmall(SumPrices(updatedNpcPrices, "sellPrice", cnt), cnt)[FracLimbs] % 100 >= 50
                           THEN 1 ELSE 0),
        !.npcPrices = updatedNpcPrices]

\* averages that are blended with the prices the house already holds
WithAverages_blendsStored(house, updatedNpcPrices, cnt) ==
    [house EXCEPT
        !.buyPrice  = (@ + toFixed2(DivSmall(SumPrices(updatedNpcPrices, "buyPrice", cnt), cnt))) \div 2,
        !.sellPrice = (@ + toFixed2(DivSmall(SumPrices(updatedNpcPrices, "sellPrice", cnt), cnt))) \div 2,
        !.npcPrices = updatedNpcPrices]

\* the updated house: averages rounded to two decimals, then the pylon flag
WithAverages(house, updatedNpcPrices, cnt) ==
    [house EXCEPT
        !.buyPrice  = toFixed2(DivSmall(SumPrices(updatedNpcPrices, "buyPrice", cnt), cnt)),
        !.sellPrice = toFixed2(DivSmall(SumPrices(updatedNpcPrices, "sellPrice", cnt), cnt)),
        !.npcPrices = updatedNpcPrices]

\* { ...updatedHouse, isPylonEligible: checkPylonEligibility(updatedHouse) }
WithPylon(updatedHouse) ==
    [updatedHouse EXCEPT !.isPylonEligible = checkPylonEligibility(updatedHouse)]

\* the entry with its prices rounded to two decimals
NpcPriceInfo_rounded(npc, r) ==
    [npc |-> npc, buyPrice |-> FromHundredths(toFixed2(r.buyPrice)),
     sellPrice |-> FromHundredths(toFixed2(r.sellPrice)), factors |-> r.factors]

\* { npc: npcInfo.npc, buyPrice, sellPrice, factors }
NpcPriceInfo(npc, r) ==
    [npc |-> npc, buyPrice |-> r.buyPrice, sellPrice |-> r.sellPrice,
     factors |-> r.factors]

\* house.npcPrices.map((npcInfo) => ...) with the recomputed values
UpdatedNpcPrices(house) ==
    [i \in 1..Len(house.npcPrices) |->
        NpcPriceInfo(house.npcPrices[i].npc,
                     calculateSingleNpcPrices(house.npcPrices[i].npc, house))]

\* the body of placements.map((house) => ...) in the recompute effect
UpdateHouse(house) ==
    IF Len(house.npcPrices) > 0
    THEN WithPylon(WithAverages(house, UpdatedNpcPrices(house), Len(house.npcPrices)))
    ELSE house

updatedPlacements(current) ==
    [i \in 1..Len(current) |-> UpdateHouse(current[i])]

\* updatedPlacements.some((house, i) => prices differ from placements[i])
hasChanges(updated, current) ==
    \E i \in 1..Len(updated) :
        \/ updated[i].buyPrice # current[i].buyPrice
        \/ updated[i].sellPrice # current[i].sellPrice

\* if (hasChanges) setPlacements(updatedPlacements)
Recomputed(updated, current) ==
    IF hasChanges(updated, current) THEN updated ELSE current

\* rounding of total / count to hundredths, for a total in hundredths
RoundRatio(total, count) == (2 * total + count) \div (2 * count)

RECURSIVE SumSell(_, _)
SumSell(current, i) ==
    IF i = 0 THEN 0
    ELSE SumSell(current, i - 1)
         + (IF Len(current[i].npcPrices) > 0 THEN current[i].sellPrice ELSE 0)

\* the value the average effect passes to setAverageHappiness
averageOf(current) ==
    LET total == SumSell(current, Len(current))
        fullPlacements == SelectSeq(current, LAMBDA p : Len(p.npcPrices) > 0)
    IN  IF Len(fullPlacements) = 0 THEN 0   \* 0 / 0 is NaN, and (NaN || 0) is 0
        ELSE RoundRatio(total, Len(fullPlacements))

\* ------------------------------------------------------------------------
\* Biome allocation and initial layout
\* ------------------------------------------------------------------------

\* biomeCounts.get(biome) after counting the existing houses
BiomeCount(existingHouses, biome) ==
    Cardinality({i \in 1..Len(existingHouses) : existingHouses[i].biome = biome})

\* the `for (const biome of biomes)` scan with a strict `count < lowestCount`
RECURSIVE LeastUsedFrom(_, _, _)
LeastUsedFrom(existingHouses, i, best) ==
    IF i > Len(biomes) THEN best
    ELSE LeastUsedFrom(existingHouses, i + 1,
            IF BiomeCount(existingHouses, biomes[i]) < BiomeCount(existingHouses, best)
            THEN biomes[i] ELSE best)

\* getNextUnusedBiome whose scan starts from the last known biome
getNextUnusedBiome_fromLast(existingHouses) ==
    IF Len(biomes) = 0 THEN "Forest"
    ELSE LeastUsedFrom(existingHouses, 1, biomes[Len(biomes)])

getNextUnusedBiome(existingHouses) ==
    IF Len(biomes) = 0 THEN "Forest"
    ELSE LeastUsedFrom(existingHouses, 1, biomes[1])

\* initial house count requested by the initialisation effect
InitialCount == 10

RECURSIVE InitialHousesFrom(_, _, _)
InitialHousesFrom(initialHouses, i, actualCount) ==
    IF i >= actualCount THEN initialHouses
    ELSE InitialHousesFrom(
            Append(initialHouses, NewHouse(i, getNextUnusedBiome(initialHouses))),
            i + 1, actualCount)

\* initializeHouses that does not limit the count to the number of biomes
initializeHouses_uncapped(count) ==
    InitialHousesFrom(<<>>, 0, count)

\* the array built by initializeHouses(count)
initializeHouses(count) ==
    LET actualCount == IF Len(biomes) > 0 THEN Min(count, Len(biomes)) ELSE count
    IN  InitialHousesFrom(<<>>, 0, actualCount)

\* ------------------------------------------------------------------------
\* Layout mutations: the functional updates passed to setPlacements
\* ------------------------------------------------------------------------

\* addHouse that always gives the new house the first known biome
addHouse_firstBiome(prevPlacements, id) ==
    Append(prevPlacements, NewHouse(id, IF Len(biomes) = 0 THEN "Forest" ELSE biomes[1]))

addHouse(prevPlacements, id) ==
    Append(prevPlacements, NewHouse(id, getNextUnusedBiome(prevPlacements)))

\* a counter update that does not advance
incrementNextId_stuck(prevId) == prevId

\* setNextId((prevId) => prevId + 1)
incrementNextId(prevId) == prevId + 1

\* removeHouse that closes the gap by renumbering the houses after it
removeHouse_renumbers(prevPlacements, houseId) ==
    IF ~HouseExists(prevPlacements, houseId) THEN prevPlacements
    ELSE LET kept == SelectSeq(prevPlacements, LAMBDA house : house.id # houseId)
         IN  [i \in 1..Len(kept) |->
                IF kept[i].id > houseId
                THEN [kept[i] EXCEPT !.id = @ - 1]
                ELSE kept[i]]

removeHouse(prevPlacements, houseId) ==
    IF ~HouseExists(prevPlacements, houseId) THEN prevPlacements
    ELSE SelectSeq(prevPlacements, LAMBDA house : house.id # houseId)

\* prevPlacements.findIndex(house has npc), 0 standing for -1
ExistingHouseIndex(prevPlacements, npc) ==
    IF \E i \in 1..Len(prevPlacements) : HasNpc(prevPlacements[i], npc)
    THEN CHOOSE i \in 1..Len(prevPlacements) :
            /\ HasNpc(prevPlacements[i], npc)
            /\ \A j \in 1..(i - 1) : ~HasNpc(prevPlacements[j], npc)
    ELSE 0

\* house.npcPrices.filter((info) => info.npc !== npc)
WithoutNpc(npcPrices, npc) == SelectSeq(npcPrices, LAMBDA info : info.npc # npc)

\* placeNPC that forgets to take the NPC out of its previous house
placeNPC_keepsOld(prevPlacements, houseId, npcToPlace) ==
    IF ~HouseExists(prevPlacements, houseId) THEN prevPlacements
    ELSE [i \in 1..Len(prevPlacements) |->
            IF prevPlacements[i].id = houseId /\ ~HasNpc(prevPlacements[i], npcToPlace)
            THEN [prevPlacements[i] EXCEPT !.npcPrices = Append(@, NewNpcPrice(npcToPlace))]
            ELSE prevPlacements[i]]

\* the body of placeNPC after the house check, with the way the new entry
\* joins the target's list and the test for "already there" as parameters
PlaceWith(prevPlacements, houseId, npcToPlace, Join(_, _), skipIfPresent) ==
    LET existingHouseIndex == ExistingHouseIndex(prevPlacements, npcToPlace)
        newPlacements ==
            IF existingHouseIndex # 0 /\ prevPlacements[existingHouseIndex].id # houseId
            THEN [i \in 1..Len(prevPlacements) |->
                    IF i = existingHouseIndex
                    THEN [prevPlacements[i] EXCEPT !.npcPrices = WithoutNpc(@, npcToPlace)]
                    ELSE prevPlacements[i]]
            ELSE prevPlacements
    IN  [i \in 1..Len(newPlacements) |->
            IF /\ newPlacements[i].id = houseId
               /\ (skipIfPresent => ~HasNpc(newPlacements[i], npcToPlace))
            THEN [newPlacements[i] EXCEPT !.npcPrices = Join(@, NewNpcPrice(npcToPlace))]
            ELSE newPlacements[i]]

\* placeNPC that puts the new occupant first in the target house
placeNPC_prepends(prevPlacements, houseId, npcToPlace) ==
    IF ~HouseExists(prevPlacements, houseId) THEN prevPlacements
    ELSE PlaceWith(prevPlacements, houseId, npcToPlace,
                   LAMBDA list, entry : <<entry>> \o list, TRUE)

\* placeNPC without the check that the target house exists
placeNPC_noHouseCheck(prevPlacements, houseId, npcToPlace) ==
    PlaceWith(prevPlacements, houseId, npcToPlace,
              LAMBDA list, entry : Append(list, entry), TRUE)

\* placeNPC without the check that the NPC is already in the target house
placeNPC_alwaysAppends(prevPlacements, houseId, npcToPlace) ==
    IF ~HouseExists(prevPlacements, houseId) THEN prevPlacements
    ELSE PlaceWith(prevPlacements, houseId, npcToPlace,
                   LAMBDA list, entry : Append(list, entry), FALSE)

placeNPC(prevPlacements, houseId, npcToPlace) ==
    IF ~HouseExists(prevPlacements, houseId) THEN prevPlacements
    ELSE
    LET existingHouseIndex == ExistingHouseIndex(prevPlacements, npcToPlace)
        newPlacements ==
            IF existingHouseIndex # 0 /\ prevPlacements[existingHouseIndex].id # houseId
            THEN [i \in 1..Len(prevPlacements) |->
                    IF i = existingHouseIndex
                    THEN [prevPlacements[i] EXCEPT !.npcPrices = WithoutNpc(@, npcToPlace)]
                    ELSE prevPlacements[i]]
            ELSE prevPlacements
    IN  [i \in 1..Len(newPlacements) |->
            IF newPlacements[i].id = houseId /\ ~HasNpc(newPlacements[i], npcToPlace)
            THEN [newPlacements[i] EXCEPT !.npcPrices = Append(@, NewNpcPrice(npcToPlace))]
            ELSE newPlacements[i]]

\* changeBiome that also restores the default prices of the house
changeBiome_resetsPrices(prevPlacements, houseId, biome) ==
    IF ~HouseExists(prevPlacements, houseId) THEN prevPlacements
    ELSE [i \in 1..Len(prevPlacements) |->
            IF prevPlacements[i].id = houseId
            THEN [prevPlacements[i] EXCEPT !.biome = biome,
                                           !.buyPrice = 100,
                                           !.sellPrice = 100]
            ELSE prevPlacements[i]]

changeBiome(prevPlacements, houseId, biome) ==
    IF ~HouseExists(prevPlacements, houseId) THEN prevPlacements
    ELSE [i \in 1..Len(prevPlacements) |->
            IF prevPlacements[i].id = houseId
            THEN [prevPlacements[i] EXCEPT !.biome = biome]
            ELSE prevPlacements[i]]

\* removeNPC that leaves the prices of an emptied house as they were
removeNPC_keepsPrices(prevPlacements, houseId, npcToRemove) ==
    IF ~HouseExists(prevPlacements, houseId) THEN prevPlacements
    ELSE [i \in 1..Len(prevPlacements) |->
            IF prevPlacements[i].id = houseId
            THEN [prevPlacements[i] EXCEPT !.npcPrices =
                    IF npcToRemove # "" THEN WithoutNpc(@, npcToRemove) ELSE <<>>]
            ELSE prevPlacements[i]]

\* npcToRemove = "" stands for the omitted argument (both are falsy)
removeNPC(prevPlacements, houseId, npcToRemove) ==
    IF ~HouseExists(prevPlacements, houseId) THEN prevPlacements
    ELSE IF npcToRemove # ""
    THEN [i \in 1..Len(prevPlacements) |->
            IF prevPlacements[i].id = houseId
            THEN LET house == prevPlacements[i]
                     updatedNpcPrices == WithoutNpc(house.npcPrices, npcToRemove)
                 IN  [house EXCEPT
                        !.npcPrices = updatedNpcPrices,
                        !.buyPrice  = IF Len(updatedNpcPrices) > 0 THEN house.buyPrice ELSE 100,
                        !.sellPrice = IF Len(updatedNpcPrices) > 0 THEN house.sellPrice ELSE 100]
            ELSE prevPlacements[i]]
    ELSE [i \in 1..Len(prevPlacements) |->
            IF prevPlacements[i].id = houseId
            THEN [prevPlacements[i] EXCEPT !.npcPrices = <<>>,
                                           !.buyPrice = 100,
                                           !.sellPrice = 100]
            ELSE prevPlacements[i]]

\* savedPlacements.reduce((maxId, house) => Math.max(maxId, house.id), -1)
RECURSIVE HighestId(_, _)
HighestId(savedPlacements, i) ==
    IF i = 0 THEN -1
    ELSE LET m == HighestId(savedPlacements, i - 1)
         IN  IF savedPlacements[i].id > m THEN savedPlacements[i].id ELSE m

\* the placed NPCs of the first house only
placedNPCs_firstHouse(current) ==
    IF Len(current) = 0 THEN <<>> ELSE Occupants(current[1])

\* placements.flatMap((house) => house.npcPrices.map((info) => info.npc))
placedNPCs(current) == OccupantsOfAll(current, Len(current))

\* NPCSpritesRow: Object.keys(npcData).filter((npc) => !placedNPCs.includes(npc))
availableNPCs(current) ==
    {npc \in DOMAIN npcData : npc \notin Range(placedNPCs(current))}

\* ------------------------------------------------------------------------
\* Initial state and actions
\* ------------------------------------------------------------------------

\* history record of a handler call: the handler, its arguments (the house
\* id, and the NPC id or the biome name) and what it found
Op(op, kind, house, npc) == [op |-> op, kind |-> kind, house |-> house, npc |-> npc]

\* id of the house that holds npc, -1 if none
HouseOf(current, npc) ==
    IF ExistingHouseIndex(current, npc) = 0 THEN -1
    ELSE current[ExistingHouseIndex(current, npc)].id

IdsOf(current) == {current[i].id : i \in 1..Len(current)}

\* house ids a handler is called with: the houses on screen and one id
\* that no house has
HouseInputs == IdsOf(placements) \cup {nextId}

\* the useState initial values
Init ==
    /\ placements = <<>>
    /\ nextId = 0
    /\ renderedNextId = 0
    /\ npcData = <<>>
    /\ biomes = <<>>
    /\ isLoading = TRUE
    /\ initialSetupDone = FALSE
    /\ averageHappiness = 0
    /\ pc = "idle"
    /\ created = {}
    /\ calls = 0
    /\ lastOp = Op("mount", "", -1, "")

\* loadNpcData resolves: dataset, biome list and NPC objects are stored and
\* occupants that are not in the dataset are dropped
LoadNpcData ==
    /\ isLoading
    /\ biomes' = BiomeList
    /\ npcData' = VanillaJson
    /\ placements' =
            [i \in 1..Len(placements) |->
                [placements[i] EXCEPT !.npcPrices =
                    SelectSeq(@, LAMBDA npcPrice : npcPrice.npc \in DOMAIN VanillaJson)]]
    /\ isLoading' = FALSE
    /\ pc' = "effects"
    /\ lastOp' = Op("loadNpcData", "", -1, "")
    /\ UNCHANGED <<nextId, renderedNextId, initialSetupDone, averageHappiness,
                   created, calls>>

\* one commit: the component renders (its handlers capture nextId) and its
\* effects run in source order on the rendered state: initialisation,
\* average, recompute
Effects ==
    /\ pc = "effects"
    /\ renderedNextId' = nextId
    /\ LET willInit == /\ ~initialSetupDone
                       /\ npcs # {}
                       /\ Len(placements) = 0
           skip     == isLoading \/ Len(placements) = 0
       IN  /\ placements' = IF willInit THEN initializeHouses(InitialCount)
                            ELSE IF skip THEN placements
                            ELSE Recomputed(updatedPlacements(placements), placements)
           /\ nextId' = IF willInit THEN InitialCount ELSE nextId
           /\ initialSetupDone' = (initialSetupDone \/ willInit)
           /\ isLoading' = IF npcs # {} THEN FALSE ELSE isLoading
           /\ averageHappiness' = IF skip THEN averageHappiness
                                  ELSE averageOf(placements)
    \* a commit follows exactly when an effect stored a new layout
    /\ pc' = IF placements' # placements THEN "effects" ELSE "idle"
    /\ lastOp' = Op("effects", "", -1, "")
    /\ UNCHANGED <<npcData, biomes, created, calls>>

\* the page is on screen and no commit is pending
Ready == pc = "idle" /\ ~isLoading /\ calls < MaxCalls

\* one call of addHouse from the handlers of the last render
AddHouseCall ==
    /\ calls < MaxCalls
    /\ calls' = calls + 1
    /\ placements' = addHouse(placements, renderedNextId)
    /\ nextId' = incrementNextId(nextId)
    /\ created' = created \cup {renderedNextId}
    /\ pc' = "effects"
    /\ lastOp' = Op("addHouse", "", renderedNextId, "")
    /\ UNCHANGED <<renderedNextId, npcData, biomes, isLoading, initialSetupDone,
                   averageHappiness>>

AddHouse == Ready /\ AddHouseCall

\* a setPlacements whose updater returned prevPlacements itself is dropped
\* by React: no commit follows
AfterUpdate(found) == IF found THEN "effects" ELSE pc

RemoveHouse(houseId) ==
    /\ Ready
    /\ placements' = removeHouse(placements, houseId)
    /\ pc' = AfterUpdate(HouseExists(placements, houseId))
    /\ lastOp' = Op("removeHouse",
                    IF ~HouseExists(placements, houseId) THEN "missing"
                    ELSE IF \E i \in 1..Len(placements) :
                                /\ placements[i].id = houseId
                                /\ Len(placements[i].npcPrices) > 0
                         THEN "occupied"
                         ELSE "empty",
                    houseId, "")
    /\ calls' = calls + 1
    /\ UNCHANGED <<nextId, renderedNextId, npcData, biomes, isLoading,
                   initialSetupDone, averageHappiness, created>>

PlaceNPC(houseId, npc) ==
    /\ Ready
    /\ placements' = placeNPC(placements, houseId, npc)
    /\ pc' = AfterUpdate(HouseExists(placements, houseId))
    /\ lastOp' = Op("placeNPC",
                    IF ~HouseExists(placements, houseId) THEN "missing"
                    ELSE IF HouseOf(placements, npc) = -1 THEN "new"
                    ELSE IF HouseOf(placements, npc) = houseId THEN "same"
                    ELSE "moved",
                    houseId, npc)
    /\ calls' = calls + 1
    /\ UNCHANGED <<nextId, renderedNextId, npcData, biomes, isLoading,
                   initialSetupDone, averageHappiness, created>>

ChangeBiome(houseId, biome) ==
    /\ Ready
    /\ placements' = changeBiome(placements, houseId, biome)
    /\ pc' = AfterUpdate(HouseExists(placements, houseId))
    /\ lastOp' = Op("changeBiome",
                    IF HouseExists(placements, houseId) THEN "changed" ELSE "missing",
                    houseId, biome)
    /\ calls' = calls + 1
    /\ UNCHANGED <<nextId, renderedNextId, npcData, biomes, isLoading,
                   initialSetupDone, averageHappiness, created>>

RemoveNPC(houseId, npcToRemove) ==
    /\ Ready
    /\ placements' = removeNPC(placements, houseId, npcToRemove)
    /\ pc' = AfterUpdate(HouseExists(placements, houseId))
    /\ lastOp' = Op("removeNPC",
                    IF ~HouseExists(placements, houseId) THEN "missing"
                    ELSE IF npcToRemove = "" THEN "cleared"
                    ELSE IF HouseOf(placements, npcToRemove) = houseId THEN "removed"
                    ELSE "absent",
                    houseId, npcToRemove)
    /\ calls' = calls + 1
    /\ UNCHANGED <<nextId, renderedNextId, npcData, biomes, isLoading,
                   initialSetupDone, averageHappiness, created>>

Next ==
    \/ LoadNpcData
    \/ Effects
    \/ AddHouse
    \/ \E houseId \in HouseInputs : RemoveHouse(houseId)
    \/ \E houseId \in HouseInputs, npc \in npcs : PlaceNPC(houseId, npc)
    \/ \E houseId \in HouseInputs, biome \in Range(biomes) : ChangeBiome(houseId, biome)
    \/ \E houseId \in HouseInputs, npc \in npcs \cup {""} : RemoveNPC(houseId, npc)

Spec == Init /\ [][Next]_vars

\* ------------------------------------------------------------------------
\* Calls that reach the handlers of a stale render, and loading a layout
\* ------------------------------------------------------------------------

\* addHouse called again from the same render, before the commit that
\* follows the previous addHouse call
AddHouseBeforeRender ==
    /\ pc = "effects"
    /\ ~isLoading
    /\ lastOp.op = "addHouse"
    /\ AddHouseCall

\* layouts of earlier sessions found in localStorage: the initial layout
\* after one addHouse, and the initial layout with the guide in house 0
SavedLayouts ==
    { addHouse(initializeHouses(InitialCount), InitialCount),
      updatedPlacements(placeNPC(initializeHouses(InitialCount), 0, "guide")) }

\* handleLoadPlacements(savedPlacements)
LoadPlacements(savedPlacements) ==
    /\ Ready
    /\ nextId' = HighestId(savedPlacements, Len(savedPlacements)) + 1
    /\ placements' = savedPlacements
    /\ pc' = "effects"
    /\ calls' = calls + 1
    /\ lastOp' = Op("loadPlacements", "", -1, "")
    /\ UNCHANGED <<renderedNextId, npcData, biomes, isLoading, initialSetupDone,
                   averageHappiness, created>>

NextBatched ==
    \/ Next
    \/ AddHouseBeforeRender
    \/ \E savedPlacements \in SavedLayouts : LoadPlacements(savedPlacements)

SpecBatched == Init /\ [][NextBatched]_vars

\* ------------------------------------------------------------------------
\* Data sources: the dataset is loaded again when a source is toggled
\* ------------------------------------------------------------------------

\* /data/calamity.json: one more NPC, with preferences for nine more biomes
CalamityJson ==
    [bandit |-> [biome |-> [cavern |-> 1, corruption |-> 2, crimson |-> 2,
                            hallow |-> -2, jungle |-> 1, mushroom |-> -1,
                            ocean |-> 1, snow |-> -1, underground |-> 1],
                 npc   |-> [guide |-> -1]]]

\* { ...mergedData, ...additionalData }
Merged(mergedData, additionalData) ==
    [npc \in DOMAIN mergedData \cup DOMAIN additionalData |->
        IF npc \in DOMAIN additionalData THEN additionalData[npc] ELSE mergedData[npc]]

\* the datasets loadNpcData can end up with: vanilla alone or with calamity
Datasets == {VanillaJson, Merged(VanillaJson, CalamityJson)}

\* the order Array.prototype.sort gives to the biome names of the datasets
SortedBiomeNames ==
    <<"cavern", "corruption", "crimson", "desert", "forest", "hallow", "jungle",
      "mushroom", "ocean", "snow", "underground">>

\* the biome keys of all NPCs of the dataset
extractedBiomes(mergedData) ==
    UNION {DOMAIN mergedData[npc].biome : npc \in DOMAIN mergedData}

\* Array.from(extractedBiomes).sort(), then "forest" moved to the front
biomeList(mergedData) ==
    LET sorted == SelectSeq(SortedBiomeNames,
                            LAMBDA biome : biome \in extractedBiomes(mergedData))
    IN  IF "forest" \in extractedBiomes(mergedData)
        THEN <<"forest">> \o SelectSeq(sorted, LAMBDA biome : biome # "forest")
        ELSE sorted

\* house ids the handlers are called with in this specification
FewHouseInputs == {0, 1}

\* the vanilla fetch fails: the catch block only ends the loading state
LoadFailed ==
    /\ isLoading
    /\ pc = "idle"
    /\ isLoading' = FALSE
    /\ pc' = "effects"
    /\ lastOp' = Op("loadNpcData", "failed", -1, "")
    /\ UNCHANGED <<placements, nextId, renderedNextId, npcData, biomes,
                   initialSetupDone, averageHappiness, created, calls>>

\* handleDataSourceChange, then loadNpcData resolves with the given dataset
ReloadNpcData(mergedData) ==
    /\ pc = "idle"
    /\ calls < MaxCalls
    /\ biomes' = biomeList(mergedData)
    /\ npcData' = mergedData
    /\ placements' =
            [i \in 1..Len(placements) |->
                [placements[i] EXCEPT !.npcPrices =
                    SelectSeq(@, LAMBDA npcPrice : npcPrice.npc \in DOMAIN mergedData)]]
    /\ isLoading' = FALSE
    /\ pc' = "effects"
    /\ calls' = calls + 1
    /\ lastOp' = Op("reloadNpcData", "", -1, "")
    /\ UNCHANGED <<nextId, renderedNextId, initialSetupDone, averageHappiness, created>>

NextReload ==
    \/ LoadNpcData
    \/ LoadFailed
    \/ Effects
    \/ AddHouse
    \/ \E mergedData \in Datasets : ReloadNpcData(mergedData)
    \/ \E houseId \in FewHouseInputs : RemoveHouse(houseId)
    \/ \E houseId \in FewHouseInputs, npc \in npcs : PlaceNPC(houseId, npc)

SpecReload == Init /\ [][NextReload]_vars

\* ------------------------------------------------------------------------
\* The price engine on its own
\* ------------------------------------------------------------------------

\* a dataset with the princess: she has no preferences of her own
RoyalJson ==
    [guide    |-> [biome |-> [forest |-> 2], npc |-> <<>>],
     merchant |-> [biome |-> [forest |-> 1, desert |-> -1], npc |-> [guide |-> 1]],
     nurse    |-> [biome |-> <<>>, npc |-> [merchant |-> -1, princess |-> 2]],
     dryad    |-> [biome |-> [desert |-> -2], npc |-> [angler |-> -2]],
     angler   |-> [biome |-> <<>>, npc |-> <<>>],
     princess |-> [biome |-> <<>>, npc |-> <<>>]]

\* the same dataset with a princess record that has preferences
RoyalBiomeJson ==
    Merged(RoyalJson,
           [princess |-> [biome |-> [forest |-> 1],
                          npc   |-> [guide |-> 2, angler |-> -1]]])

\* occupants of the house handed to calculateSingleNpcPrices
MaxOccupants == 6

\* NPCs found in that house
PriceNpcs == {"guide", "merchant", "nurse", "dryad", "angler", "princess"}

\* occupant lists of distinct NPCs as placeNPC builds them
PriceOccupantLists ==
    UNION { { [i \in 1..k |-> NewNpcPrice(who[i])]
              : who \in {f \in [1..k -> PriceNpcs] :
                            \A i, j \in 1..k : i # j => f[i] # f[j]} }
            : k \in 1..Min(MaxOccupants, Cardinality(PriceNpcs)) }

InitPrices ==
    /\ npcData \in {RoyalJson, RoyalBiomeJson}
    /\ biomes = biomeList(npcData)
    /\ \E npcPrices \in PriceOccupantLists, biome \in {"forest", "desert"} :
            placements = <<[NewHouse(0, biome) EXCEPT !.npcPrices = npcPrices]>>
    /\ nextId = 1
    /\ renderedNextId = 1
    /\ isLoading = FALSE
    /\ initialSetupDone = TRUE
    /\ averageHappiness = 0
    /\ pc = "idle"
    /\ created = {}
    /\ calls = 0
    /\ lastOp = Op("mount", "", -1, "")

\* one call calculateSingleNpcPrices(npc, placements[0]) for the occupant at
\* position j; the result is stored in the occupant's entry as the recompute
\* effect does
CalculateSingleNpcPrices(j) ==
    /\ lastOp.op = "mount"
    /\ placements' =
            [placements EXCEPT ![1].npcPrices[j] =
                NpcPriceInfo(@.npc, calculateSingleNpcPrices(@.npc, placements[1]))]
    /\ lastOp' = Op("calculateSingleNpcPrices", "", placements[1].id,
                    placements[1].npcPrices[j].npc)
    /\ UNCHANGED <<nextId, renderedNextId, npcData, biomes, isLoading,
                   initialSetupDone, averageHappiness, pc, created, calls>>

NextPrices ==
    \E j \in 1..Len(placements[1].npcPrices) : CalculateSingleNpcPrices(j)

SpecPrices == InitPrices /\ [][NextPrices]_vars

\* a dataset whose angler record holds explicit 0 scores
ZeroJson ==
    Merged(RoyalJson,
           [angler |-> [biome |-> [forest |-> 0], npc |-> [guide |-> 0, nurse |-> 2]]])

\* occupants of a house that came from a saved layout
MaxLoadedOccupants == 4

\* NPC ids found in a saved layout: NPCs of the dataset, one id the dataset
\* does not know and the empty id
LoadedNpcs == {"guide", "merchant", "nurse", "dryad", "angler", "ghost", ""}

\* occupant lists of a saved layout
LoadedOccupantLists ==
    UNION { { [i \in 1..k |-> NewNpcPrice(who[i])]
              : who \in {f \in [1..k -> LoadedNpcs] :
                            \A i, j \in 1..k : i # j => f[i] # f[j]} }
            : k \in 1..MaxLoadedOccupants }

\* a house of a saved layout after handleLoadPlacements: its biome and its
\* occupants are not checked against the dataset
InitLoaded ==
    /\ npcData = ZeroJson
    /\ biomes = biomeList(npcData)
    /\ \E npcPrices \in LoadedOccupantLists, biome \in {"forest", "desert", "space"} :
            placements = <<[NewHouse(0, biome) EXCEPT !.npcPrices = npcPrices]>>
    /\ nextId = 1
    /\ renderedNextId = 1
    /\ isLoading = FALSE
    /\ initialSetupDone = TRUE
    /\ averageHappiness = 0
    /\ pc = "idle"
    /\ created = {}
    /\ calls = 0
    /\ lastOp = Op("mount", "", -1, "")

SpecLoaded == InitLoaded /\ [][NextPrices]_vars

\* occupants of the house the recompute effect is run on
MaxHouseOccupants == 4

InitHouse ==
    /\ npcData \in {RoyalJson, RoyalBiomeJson}
    /\ biomes = biomeList(npcData)
    /\ \E npcPrices \in {list \in PriceOccupantLists : Len(list) <= MaxHouseOccupants},
          biome \in {"forest", "desert"} :
            placements = <<[NewHouse(0, biome) EXCEPT !.npcPrices = npcPrices]>>
    /\ nextId = 1
    /\ renderedNextId = 1
    /\ isLoading = FALSE
    /\ initialSetupDone = TRUE
    /\ averageHappiness = 0
    /\ pc = "idle"
    /\ created = {}
    /\ calls = 0
    /\ lastOp = Op("mount", "", -1, "")

\* one run of the recompute effect on a layout of one house whose occupants
\* still hold the prices placeNPC gave them; what the effect did is kept in
\* lastOp.kind
RecomputeHouse ==
    /\ lastOp.op = "mount"
    /\ placements' = Recomputed(updatedPlacements(placements), placements)
    /\ lastOp' = Op("recompute",
                    IF placements' # placements THEN "stored" ELSE "unchanged",
                    placements[1].id, "")
    /\ UNCHANGED <<nextId, renderedNextId, npcData, biomes, isLoading,
                   initialSetupDone, averageHappiness, pc, created, calls>>

SpecHouse == InitHouse /\ [][RecomputeHouse]_vars

\* occupants of the house handed to checkPylonEligibility
MaxPylonOccupants == 3

\* NPCs found in that house: one without a shop and two with a shop
PylonNpcs == {"guide", "merchant", "nurse"}

\* stored buy prices found in that house: 0.85, 0.9, 0.9009, 0.91 and 1.0
PylonPrices ==
    {FromHundredths(85), FromHundredths(90), Times(FromHundredths(91), 99),
     FromHundredths(91), One}

\* occupant lists of distinct NPCs with stored prices
PylonOccupantLists ==
    UNION { { [i \in 1..k |->
                [npc |-> who[i], buyPrice |-> buy[i], sellPrice |-> One,
                 factors |-> <<>>]]
              : who \in {f \in [1..k -> PylonNpcs] :
                            \A i, j \in 1..k : i # j => f[i] # f[j]},
                buy \in [1..k -> PylonPrices] }
            : k \in 0..Min(MaxPylonOccupants, Cardinality(PylonNpcs)) }

InitPylon ==
    /\ npcData = RoyalJson
    /\ biomes = biomeList(RoyalJson)
    /\ \E npcPrices \in PylonOccupantLists :
            placements = <<[NewHouse(0, "forest") EXCEPT !.npcPrices = npcPrices]>>
    /\ nextId = 1
    /\ renderedNextId = 1
    /\ isLoading = FALSE
    /\ initialSetupDone = TRUE
    /\ averageHappiness = 0
    /\ pc = "idle"
    /\ created = {}
    /\ calls = 0
    /\ lastOp = Op("mount", "", -1, "")

\* one call checkPylonEligibility(placements[0]); the flag is stored in the
\* house as the recompute effect does
CheckPylonEligibility ==
    /\ lastOp.op = "mount"
    /\ placements' = [placements EXCEPT ![1] = WithPylon(@)]
    /\ lastOp' = Op("checkPylonEligibility", "", placements[1].id, "")
    /\ UNCHANGED <<nextId, renderedNextId, npcData, biomes, isLoading,
                   initialSetupDone, averageHappiness, pc, created, calls>>

SpecPylon == InitPylon /\ [][CheckPylonEligibility]_vars

\* ------------------------------------------------------------------------
\* getNextUnusedBiome on its own
\* ------------------------------------------------------------------------

\* houses in a layout handed to getNextUnusedBiome
MaxHouses == 5

\* biome lists a dataset can produce: none, two and three known biomes
KnownBiomeLists == {<<>>, <<"forest", "desert">>, <<"forest", "desert", "snow">>}

\* biome names found in houses; "space" is in no known list
HouseBiomes == {"forest", "desert", "snow", "space"}

\* a dataset with one NPC whose biome preferences give the list known
DatasetFor(known) ==
    [guide |-> [biome |-> [b \in Range(known) |-> 1], npc |-> <<>>]]

\* layouts of empty houses with ids 0..k-1 and any of the biome names
BiomeLayouts ==
    UNION { { [i \in 1..k |-> NewHouse(i - 1, f[i])] : f \in [1..k -> HouseBiomes] }
            : k \in 0..MaxHouses }

InitBiomes ==
    /\ biomes \in KnownBiomeLists
    /\ npcData = DatasetFor(biomes)
    /\ placements \in BiomeLayouts
    /\ nextId = Len(placements)
    /\ renderedNextId = nextId
    /\ isLoading = FALSE
    /\ initialSetupDone = TRUE
    /\ averageHappiness = 0
    /\ pc = "idle"
    /\ created = {}
    /\ calls = 0
    /\ lastOp = Op("mount", "", -1, "")

\* one call getNextUnusedBiome(placements); the result is kept in lastOp.kind
GetNextUnusedBiome ==
    /\ lastOp.op = "mount"
    /\ lastOp' = Op("getNextUnusedBiome", getNextUnusedBiome(placements), -1, "")
    /\ UNCHANGED <<placements, nextId, renderedNextId, npcData, biomes, isLoading,
                   initialSetupDone, averageHappiness, pc, created, calls>>

SpecBiomes == InitBiomes /\ [][GetNextUnusedBiome]_vars

\* houses of the layout handed to findNeighbors
MaxNeighbourHouses == 3

\* house ids of that layout, and the ids findNeighbors is asked about
NeighbourIds == 0..MaxNeighbourHouses

\* the occupant of the i-th house of the layout, if it has one
NeighbourNpcs == <<"guide", "merchant", "nurse", "dryad", "angler", "princess">>

\* layouts of houses with distinct ids in any array order, each house empty
\* or occupied
NeighbourLayouts ==
    UNION { { [i \in 1..k |->
                [NewHouse(ids[i], "forest") EXCEPT !.npcPrices =
                    IF i \in occupied THEN <<NewNpcPrice(NeighbourNpcs[i])>> ELSE <<>>]]
              : ids \in {f \in [1..k -> NeighbourIds] :
                            \A i, j \in 1..k : i # j => f[i] # f[j]},
                occupied \in SUBSET (1..k) }
            : k \in 1..MaxNeighbourHouses }

InitNeighbours ==
    /\ npcData = RoyalJson
    /\ biomes = biomeList(npcData)
    /\ placements \in NeighbourLayouts
    /\ nextId = MaxNeighbourHouses + 1
    /\ renderedNextId = MaxNeighbourHouses + 1
    /\ isLoading = FALSE
    /\ initialSetupDone = TRUE
    /\ averageHappiness = 0
    /\ pc = "idle"
    /\ created = {}
    /\ calls = 0
    /\ lastOp = Op("mount", <<>>, -1, "")

\* one call findNeighbors(houseId, placements); the houses it returns are
\* kept in lastOp.kind
FindNeighbors(houseId) ==
    /\ lastOp.op = "mount"
    /\ lastOp' = Op("findNeighbors", findNeighbors(houseId, placements), houseId, "")
    /\ UNCHANGED <<placements, nextId, renderedNextId, npcData, biomes, isLoading,
                   initialSetupDone, averageHappiness, pc, created, calls>>

NextNeighbours == \E houseId \in NeighbourIds \cup {MaxNeighbourHouses + 1} : FindNeighbors(houseId)

SpecNeighbours == InitNeighbours /\ [][NextNeighbours]_vars

\* ------------------------------------------------------------------------
\* Properties
\* ------------------------------------------------------------------------

\* positions <<house index, occupant index>> at which npc is stored
PositionsOf(current, npc) ==
    UNION { { <<i, j>> : j \in { k \in 1..Len(current[i].npcPrices) :
                                    current[i].npcPrices[k].npc = npc } }
            : i \in 1..Len(current) }

AllOccupants(current) ==
    UNION {Range(Occupants(current[i])) : i \in 1..Len(current)}

\* index of the house with the given id (ids distinct), 0 if none
IndexOfHouse(current, houseId) ==
    IF HouseExists(current, houseId)
    THEN CHOOSE i \in 1..Len(current) : current[i].id = houseId
    ELSE 0

\* this step is a call of the given handler; its arguments are in lastOp'
Called(op) == calls' = calls + 1 /\ lastOp'.op = op

\* C1: in every reachable state each NPC id occurs in at most one house and
\* at most once in that house's occupant list
C1_NpcInAtMostOneHouse ==
    \A npc \in AllOccupants(placements) :
        Cardinality(PositionsOf(placements, npc)) <= 1

\* C1 witness: an NPC was just moved between houses and another NPC is placed
C1_Witness ==
    /\ lastOp.op = "placeNPC"
    /\ lastOp.kind = "moved"
    /\ Cardinality(AllOccupants(placements)) >= 2

\* C2: once the recompute effect has settled, a house with zero occupants has
\* buyPrice = 1.0, sellPrice = 1.0 and isPylonEligible = false
C2_EmptyHouseHasDefaults ==
    (pc = "idle" /\ ~isLoading) =>
        \A i \in 1..Len(placements) :
            Len(placements[i].npcPrices) = 0 =>
                /\ placements[i].buyPrice = 100
                /\ placements[i].sellPrice = 100
                /\ placements[i].isPylonEligible = FALSE

\* C3: once the recompute effect has settled, every occupant's stored
\* buyPrice, sellPrice and factors equal calculateSingleNpcPrices on the
\* current layout and every non-empty house's stored isPylonEligible equals
\* checkPylonEligibility on those results
C3_StoredEqualsRecomputed ==
    (pc = "idle" /\ ~isLoading) =>
        \A i \in 1..Len(placements) :
            Len(placements[i].npcPrices) > 0 =>
                /\ \A j \in 1..Len(placements[i].npcPrices) :
                    LET stored == placements[i].npcPrices[j]
                        fresh  == calculateSingleNpcPrices(stored.npc, placements[i])
                    IN  /\ stored.buyPrice = fresh.buyPrice
                        /\ stored.sellPrice = fresh.sellPrice
                        /\ stored.factors = fresh.factors
                /\ placements[i].isPylonEligible
                       = checkPylonEligibility(UpdateHouse(placements[i]))

\* C4: placeNPC(houseId, npc) with npc in a different house H1 and houseId an
\* existing house H2 yields in one step a layout where npc is absent from H1
\* and is the last occupant of H2, npc is in exactly one house, the other
\* occupants of H1 and H2 keep their order and every other house is unchanged
C4_MoveInOneStep ==
    [][LET houseId == lastOp'.house
           npc     == lastOp'.npc
       IN
        ( /\ Called("placeNPC")
          /\ HouseExists(placements, houseId)
          /\ HouseOf(placements, npc) \notin {-1, houseId} )
        => /\ Len(placements') = Len(placements)
           /\ Cardinality(PositionsOf(placements', npc)) = 1
           /\ \A i \in 1..Len(placements) :
                /\ placements'[i].id = placements[i].id
                /\ placements'[i].biome = placements[i].biome
                /\ IF placements[i].id = HouseOf(placements, npc)
                   THEN Occupants(placements'[i])
                            = SelectSeq(Occupants(placements[i]), LAMBDA n : n # npc)
                   ELSE IF placements[i].id = houseId
                   THEN /\ Occupants(placements'[i])
                                = Append(Occupants(placements[i]), npc)
                        /\ SubSeq(placements'[i].npcPrices, 1, Len(placements[i].npcPrices))
                                = placements[i].npcPrices
                   ELSE placements'[i] = placements[i]
      ]_vars

\* C4 witness: an NPC was moved into a house that already had an occupant
C4_Witness ==
    /\ lastOp.op = "placeNPC"
    /\ lastOp.kind = "moved"
    /\ pc = "effects"
    /\ \E i \in 1..Len(placements) :
        /\ placements[i].id = lastOp.house
        /\ Len(placements[i].npcPrices) = 2
        /\ placements[i].npcPrices[2].npc = lastOp.npc

\* C5: in every reachable state the ids of the houses are pairwise distinct
\* non-negative integers, also when addHouse is called twice before the
\* component re-renders and after handleLoadPlacements
C5_HouseIdsDistinct ==
    /\ \A i \in 1..Len(placements) : placements[i].id >= 0
    /\ \A i, j \in 1..Len(placements) :
            i # j => placements[i].id # placements[j].id

\* C6: each house created by addHouse receives an id strictly greater than
\* the id of every house created earlier, also of houses removed since
C6_NewIdAboveEarlierIds ==
    [][Called("addHouse") =>
        \A earlier \in created : placements'[Len(placements')].id > earlier
      ]_vars

\* C6 witness: addHouse ran after an earlier created house had been removed
C6_Witness ==
    /\ lastOp.op = "addHouse"
    /\ \E earlier \in created :
        /\ earlier # lastOp.house
        /\ earlier \notin IdsOf(placements)

\* C7: removeHouse, placeNPC, changeBiome and removeNPC called with a house
\* id that is not in the layout leave the layout unchanged; placeNPC does not
\* take the NPC out of the house it occupies
C7_MissingHouseIsNoOp ==
    [][( /\ \/ Called("removeHouse")
             \/ Called("placeNPC")
             \/ Called("changeBiome")
             \/ Called("removeNPC")
          /\ ~HouseExists(placements, lastOp'.house) )
        => /\ placements' = placements
           /\ nextId' = nextId
           /\ pc' = pc
      ]_vars

\* C7 witness: placeNPC was called with a missing house for an NPC that
\* occupies a house
C7_Witness ==
    /\ lastOp.op = "placeNPC"
    /\ lastOp.kind = "missing"
    /\ HouseOf(placements, lastOp.npc) # -1

\* C8: placeNPC(houseId, npc) when npc already occupies houseId changes no
\* occupant list, biome or stored price and does not duplicate npc
C8_PlaceInSameHouseIsNoOp ==
    [][( /\ Called("placeNPC")
          /\ HouseOf(placements, lastOp'.npc) = lastOp'.house )
        => placements' = placements
      ]_vars

\* C8 witness: an NPC was dropped on the house it occupies, next to another
\* occupant
C8_Witness ==
    /\ lastOp.op = "placeNPC"
    /\ lastOp.kind = "same"
    /\ \E i \in 1..Len(placements) :
        /\ placements[i].id = lastOp.house
        /\ Len(placements[i].npcPrices) = 2

\* C9: removeNPC(houseId, npcId) on an existing house removes only occupant
\* npcId and keeps the others in order, removeNPC(houseId) clears the house;
\* a house left empty has buyPrice = sellPrice = 1.0 and every other house
\* is unchanged
C9_RemoveNpc ==
    [][LET houseId == lastOp'.house
           npc     == lastOp'.npc
       IN
        ( /\ Called("removeNPC")
          /\ HouseExists(placements, houseId) )
        => /\ Len(placements') = Len(placements)
           /\ \A i \in 1..Len(placements) :
                IF placements[i].id = houseId
                THEN /\ placements'[i].id = houseId
                     /\ placements'[i].biome = placements[i].biome
                     /\ placements'[i].npcPrices =
                            IF npc = "" THEN <<>>
                            ELSE SelectSeq(placements[i].npcPrices,
                                           LAMBDA info : info.npc # npc)
                     /\ Len(placements'[i].npcPrices) = 0 =>
                            /\ placements'[i].buyPrice = 100
                            /\ placements'[i].sellPrice = 100
                ELSE placements'[i] = placements[i]
      ]_vars

\* C9 witness: one of two occupants was removed from a house
C9_Witness ==
    /\ lastOp.op = "removeNPC"
    /\ lastOp.kind = "removed"
    /\ \E i \in 1..Len(placements) :
        /\ placements[i].id = lastOp.house
        /\ Len(placements[i].npcPrices) = 1

\* C10: removeHouse(id) for an id in the layout removes exactly that house,
\* whose occupants are then in no house, and leaves every other house and
\* the order of the houses unchanged
C10_RemoveHouse ==
    [][LET houseId == lastOp'.house
       IN
        ( /\ Called("removeHouse")
          /\ HouseExists(placements, houseId) )
        => LET k == IndexOfHouse(placements, houseId)
           IN  /\ Len(placements') = Len(placements) - 1
               /\ houseId \notin IdsOf(placements')
               /\ \A i \in 1..Len(placements') :
                    placements'[i] = placements[IF i < k THEN i ELSE i + 1]
               /\ \A npc \in Range(Occupants(placements[k])) :
                    HouseOf(placements', npc) = -1
      ]_vars

\* C10 witness: a house with an occupant was removed while a later house
\* with an occupant remained
C10_Witness ==
    /\ lastOp.op = "removeHouse"
    /\ lastOp.kind = "occupied"
    /\ \E i \in 1..Len(placements) :
        /\ placements[i].id > lastOp.house
        /\ Len(placements[i].npcPrices) > 0

C12_AddHouseAppends ==
    [][Called("addHouse") =>
        /\ Len(placements') = Len(placements) + 1
        /\ SubSeq(placements', 1, Len(placements)) = placements
        /\ LET newHouse == placements'[Len(placements')]
           IN  /\ newHouse.npcPrices = <<>>
               /\ newHouse.buyPrice = 100
               /\ newHouse.sellPrice = 100
               /\ newHouse.biome = getNextUnusedBiome(placements)
      ]_vars

\* C12 witness: addHouse ran on a layout with an occupied house and an uneven
\* use of the biomes, and the new house did not get the first biome
C12_Witness ==
    /\ lastOp.op = "addHouse"
    /\ Len(placements) >= 2
    /\ placements[Len(placements)].biome # biomes[1]
    /\ \E i \in 1..Len(placements) : Len(placements[i].npcPrices) > 0

\* number of houses of the layout that have the given biome
Uses(current, biome) ==
    Cardinality({i \in 1..Len(current) : current[i].biome = biome})

\* C13: with a non-empty known biome list getNextUnusedBiome returns a biome
\* of the list with the fewest uses among the houses, the earliest in the
\* list among those; houses with a biome outside the list do not influence
\* the result; with an empty list it returns "Forest"
C13_LeastUsedEarliestBiome ==
    lastOp.op = "getNextUnusedBiome" =>
        LET result == lastOp.kind
        IN  IF Len(biomes) = 0 THEN result = "Forest"
            ELSE /\ \E k \in 1..Len(biomes) :
                        /\ result = biomes[k]
                        /\ \A j \in 1..Len(biomes) :
                            Uses(placements, biomes[k]) <= Uses(placements, biomes[j])
                        /\ \A j \in 1..(k - 1) :
                            Uses(placements, biomes[k]) < Uses(placements, biomes[j])
                 /\ result = getNextUnusedBiome(
                        SelectSeq(placements, LAMBDA house : house.biome \in Range(biomes)))

\* C13 witness: three known biomes used 2, 2 and 1 times by five houses
C13_Witness ==
    /\ lastOp.op = "getNextUnusedBiome"
    /\ Len(biomes) = 3
    /\ Len(placements) = 5
    /\ Uses(placements, biomes[1]) = 2
    /\ Uses(placements, biomes[2]) = 2
    /\ Uses(placements, biomes[3]) = 1
    /\ lastOp.kind = biomes[3]

\* C14: the initialisation creates min(10, number of known biomes) houses
\* when a biome is known, with ids 0..n-1, no occupants, prices 1.0/1.0 and
\* pairwise distinct biomes; it happens at most once: afterwards no effect
\* and no dataset reload changes which houses the layout has
C14_InitialLayoutOnce ==
    [][/\ initialSetupDone => initialSetupDone'
       /\ IF ~initialSetupDone /\ initialSetupDone'
          THEN Len(biomes) >= 1 =>
                /\ Len(placements') = Min(10, Len(biomes))
                /\ \A i \in 1..Len(placements') :
                    /\ placements'[i].id = i - 1
                    /\ placements'[i].npcPrices = <<>>
                    /\ placements'[i].buyPrice = 100
                    /\ placements'[i].sellPrice = 100
                    /\ placements'[i].biome \in Range(biomes)
                /\ \A i, j \in 1..Len(placements') :
                    i # j => placements'[i].biome # placements'[j].biome
          ELSE lastOp'.op \in {"effects", "loadNpcData", "reloadNpcData"} =>
                /\ Len(placements') = Len(placements)
                /\ \A i \in 1..Len(placements) :
                    /\ placements'[i].id = placements[i].id
                    /\ placements'[i].biome = placements[i].biome
      ]_vars

\* C14 witness: ten houses were created from eleven known biomes, the
\* dataset was then reloaded with two biomes and the effects have settled
C14_Witness ==
    /\ pc = "idle"
    /\ initialSetupDone
    /\ lastOp.op = "effects"
    /\ Len(placements) = 10
    /\ Len(biomes) = 2

\* C15: checkPylonEligibility(house) is false with fewer than 2 occupants and
\* false when no occupant has a shop; otherwise it is true exactly when an
\* occupant with a shop has buyPrice <= 0.9 (0.85 and 0.90 count, 0.9009,
\* 0.91 and 1.0 do not); occupants without a shop never make it true
C15_PylonEligibility ==
    lastOp.op = "checkPylonEligibility" =>
        LET house == placements[1]
            discounted == {FromHundredths(85), FromHundredths(90)}
        IN  house.isPylonEligible =
                ( /\ Len(house.npcPrices) >= 2
                  /\ \E i \in 1..Len(house.npcPrices) :
                        /\ hasShop(house.npcPrices[i].npc)
                        /\ house.npcPrices[i].buyPrice \in discounted )

\* C15 witness: two occupants, the one without a shop at 0.85 and the one
\* with a shop at exactly 0.90, and the house is eligible
C15_Witness ==
    /\ lastOp.op = "checkPylonEligibility"
    /\ Len(placements[1].npcPrices) = 2
    /\ placements[1].npcPrices[1].npc = "guide"
    /\ placements[1].npcPrices[1].buyPrice = FromHundredths(85)
    /\ placements[1].npcPrices[2].npc = "merchant"
    /\ placements[1].npcPrices[2].buyPrice = FromHundredths(90)
    /\ placements[1].isPylonEligible

\* C16: once the effects have settled, the displayed global average equals
\* the sum of sellPrice over the non-empty houses divided by their number,
\* rounded to 2 decimals, and is 0 when no house is non-empty, also when the
\* layout has no house left
C16_AverageOfNonEmptyHouses ==
    (pc = "idle" /\ ~isLoading) =>
        /\ averageHappiness = averageOf(placements)
        /\ (\A i \in 1..Len(placements) : Len(placements[i].npcPrices) = 0)
                => averageHappiness = 0

\* the occupant entry calculateSingleNpcPrices was last called for
Computed ==
    LET j == CHOOSE j \in 1..Len(placements[1].npcPrices) :
                placements[1].npcPrices[j].npc = lastOp.npc
    IN  placements[1].npcPrices[j]

\* the other occupants of the house, in house order
OthersInHouse == SelectSeq(Occupants(placements[1]), LAMBDA other : other # lastOp.npc)

\* the factors of the computed entry whose text starts with the given words
FactorsStarting(words) == SelectSeq(Computed.factors, LAMBDA f : f[1] = words)

\* C17: the princess with 0 or 1 neighbours in her house gets exactly
\* buyPrice = 1.5 and sellPrice = 0.5 whatever the biome and the dataset, and
\* no princess-love factor, relationship factor or later term is applied:
\* the solitude penalty is the last factor and only a biome factor precedes it
C17_LonelyPrincess ==
    ( /\ lastOp.op = "calculateSingleNpcPrices"
      /\ lastOp.npc = "princess"
      /\ Len(OthersInHouse) < 2 )
    => /\ Computed.buyPrice = FromHundredths(150)
       /\ Computed.sellPrice = FromHundredths(50)
       /\ Len(Computed.factors) >= 1
       /\ Computed.factors[Len(Computed.factors)] =
            <<"Princess solitude penalty: Only ", ToString(Len(OthersInHouse)),
              " neighbours">>
       /\ \A k \in 1..(Len(Computed.factors) - 1) : Computed.factors[k][3] = " biome"
       /\ Len(Computed.factors) <= 2

\* C17 witness: the princess shares a forest house with the guide, whom she
\* loves in this dataset, and likes the forest
C17_Witness ==
    /\ lastOp.op = "calculateSingleNpcPrices"
    /\ lastOp.npc = "princess"
    /\ OthersInHouse = <<"guide">>
    /\ npcData = RoyalBiomeJson
    /\ placements[1].biome = "forest"
    /\ Computed.buyPrice = FromHundredths(150)

\* buy and sell multiplier, in hundredths, of a preference score
BuyFactor(score) ==
    CASE score = 2 -> 88 [] score = 1 -> 94 [] score = -1 -> 106
      [] score = -2 -> 112 [] OTHER -> 100

SellFactor(score) ==
    CASE score = 2 -> 114 [] score = 1 -> 106 [] score = -1 -> 94
      [] score = -2 -> 89 [] OTHER -> 100

\* 1.0 multiplied by all multipliers of the list, each in hundredths
RECURSIVE ProductOf(_, _)
ProductOf(multipliers, k) ==
    IF k = 0 THEN One ELSE Times(ProductOf(multipliers, k - 1), multipliers[k])

\* C18: a non-princess NPC with n neighbours in its house gets buy x0.95 /
\* sell x1.05 once and exactly one "Solitude bonus" factor when n < 3,
\* neither term nor factor when n = 3, and buy x1.05 / sell x0.95 exactly
\* n - 3 times and exactly one "Overcrowding penalty" factor when n > 3; the
\* two terms never apply together.  The multipliers are read off the price of
\* the NPC next to its biome and relationship multipliers
C18_SolitudeAndCrowding ==
    ( /\ lastOp.op = "calculateSingleNpcPrices"
      /\ lastOp.npc # "princess" )
    => LET n == Len(OthersInHouse)
           prefs == npcData[lastOp.npc]
           biomeScore == IF placements[1].biome \in DOMAIN prefs.biome
                         THEN prefs.biome[placements[1].biome] ELSE 0
           scores == [k \in 1..n |->
                        IF OthersInHouse[k] \in DOMAIN prefs.npc
                        THEN prefs.npc[OthersInHouse[k]] ELSE 0]
           crowdBuy  == IF n < 3 THEN <<95>> ELSE [k \in 1..(n - 3) |-> 105]
           crowdSell == IF n < 3 THEN <<105>> ELSE [k \in 1..(n - 3) |-> 95]
           buys  == <<BuyFactor(biomeScore)>> \o crowdBuy
                        \o [k \in 1..n |-> BuyFactor(scores[k])]
           sells == <<SellFactor(biomeScore)>> \o crowdSell
                        \o [k \in 1..n |-> SellFactor(scores[k])]
       IN  /\ Len(FactorsStarting("Solitude bonus: Only ")) = IF n < 3 THEN 1 ELSE 0
           /\ Len(FactorsStarting("Overcrowding penalty: ")) = IF n > 3 THEN 1 ELSE 0
           /\ Computed.buyPrice = ProductOf(buys, Len(buys))
           /\ Computed.sellPrice = ProductOf(sells, Len(sells))

\* C18 witness: an NPC without preferences has five neighbours, so the
\* overcrowding multiplier was applied twice: 1.05 * 1.05 = 1.1025
C18_Witness ==
    /\ lastOp.op = "calculateSingleNpcPrices"
    /\ lastOp.npc = "angler"
    /\ Len(OthersInHouse) = 5
    /\ Computed.buyPrice = Times(FromHundredths(105), 105)
    /\ Computed.sellPrice = Times(FromHundredths(95), 95)
    /\ Len(Computed.factors) = 1

\* C19: the princess with n >= 2 neighbours gets the love bonus buy x0.88 /
\* sell x1.14 for exactly the first min(n, 3) neighbours in house order, one
\* factor each, none for a later neighbour, and on top of it the relationship
\* term of the dataset for every neighbour
C19_PrincessLovesFirstThree ==
    ( /\ lastOp.op = "calculateSingleNpcPrices"
      /\ lastOp.npc = "princess"
      /\ Len(OthersInHouse) >= 2 )
    => LET n == Len(OthersInHouse)
           loved == Min(n, 3)
           prefs == npcData["princess"]
           biomeScore == IF placements[1].biome \in DOMAIN prefs.biome
                         THEN prefs.biome[placements[1].biome] ELSE 0
           scores == [k \in 1..n |->
                        IF OthersInHouse[k] \in DOMAIN prefs.npc
                        THEN prefs.npc[OthersInHouse[k]] ELSE 0]
           crowdBuy  == IF n < 3 THEN <<95>> ELSE [k \in 1..(n - 3) |-> 105]
           crowdSell == IF n < 3 THEN <<105>> ELSE [k \in 1..(n - 3) |-> 95]
           buys  == <<BuyFactor(biomeScore)>> \o crowdBuy
                        \o [k \in 1..loved |-> 88]
                        \o [k \in 1..n |-> BuyFactor(scores[k])]
           sells == <<SellFactor(biomeScore)>> \o crowdSell
                        \o [k \in 1..loved |-> 114]
                        \o [k \in 1..n |-> SellFactor(scores[k])]
           related == SelectSeq([k \in 1..n |-> <<scores[k], OthersInHouse[k]>>],
                                LAMBDA pair : pair[1] # 0)
       IN  /\ FactorsStarting("Princess loves up to 3 neighbours (")
                = [k \in 1..loved |->
                    <<"Princess loves up to 3 neighbours (", NpcName(OthersInHouse[k]), ")">>]
           /\ SelectSeq(Computed.factors, LAMBDA f : f[3] = "")
                = [k \in 1..Len(related) |->
                    << CASE related[k][1] = 2 -> "Loves "
                         [] related[k][1] = 1 -> "Likes "
                         [] related[k][1] = -1 -> "Dislikes "
                         [] related[k][1] = -2 -> "Hates ",
                       NpcName(related[k][2]), "" >>]
           /\ Computed.buyPrice = ProductOf(buys, Len(buys))
           /\ Computed.sellPrice = ProductOf(sells, Len(sells))

\* C19 witness: the princess has four neighbours; the guide, whom she also
\* loves by the dataset, is the fourth and the angler, whom she dislikes, is
\* among the first three
C19_Witness ==
    /\ lastOp.op = "calculateSingleNpcPrices"
    /\ lastOp.npc = "princess"
    /\ npcData = RoyalBiomeJson
    /\ Len(OthersInHouse) = 4
    /\ OthersInHouse[4] = "guide"
    /\ OthersInHouse[2] = "angler"
    /\ Len(FactorsStarting("Princess loves up to 3 neighbours (")) = 3
    /\ Len(FactorsStarting("Loves ")) = 1

\* C20: the biome term is skipped for the princess: for every dataset and
\* layout her buyPrice, sellPrice and factors are the same whatever the biome
\* of her house
C20_PrincessIgnoresBiome ==
    ( /\ lastOp.op = "calculateSingleNpcPrices"
      /\ lastOp.npc = "princess" )
    => \A biome \in {"forest", "desert"} :
        LET other == calculateSingleNpcPrices("princess",
                                              [placements[1] EXCEPT !.biome = biome])
        IN  /\ other.buyPrice = Computed.buyPrice
            /\ other.sellPrice = Computed.sellPrice
            /\ other.factors = Computed.factors

\* the word a factor starts with for a preference score
TierWord(score) ==
    CASE score = 2 -> "Loves " [] score = 1 -> "Likes "
      [] score = -1 -> "Dislikes " [] score = -2 -> "Hates "

\* C21: for a preference score v the biome term and the relationship term
\* apply buy x0.88 / sell x1.14 with a "Loves" factor for v = 2, buy x0.94 /
\* sell x1.06 with "Likes" for v = 1, buy x1.06 / sell x0.94 with "Dislikes"
\* for v = -1 and buy x1.12 / sell x0.89 with "Hates" for v = -2; a score of
\* 0, a missing entry and a biome no record names apply no multiplier and add
\* no factor
C21_TierTable ==
    ( /\ lastOp.op = "calculateSingleNpcPrices"
      /\ lastOp.npc \in npcs
      /\ lastOp.npc # "princess" )
    => LET n == Len(OthersInHouse)
           prefs == npcData[lastOp.npc]
           biome == placements[1].biome
           biomeScore == IF biome \in DOMAIN prefs.biome THEN prefs.biome[biome] ELSE 0
           scores == [k \in 1..n |->
                        IF OthersInHouse[k] \in DOMAIN prefs.npc
                        THEN prefs.npc[OthersInHouse[k]] ELSE 0]
           crowdBuy  == IF n < 3 THEN <<95>> ELSE [k \in 1..(n - 3) |-> 105]
           crowdSell == IF n < 3 THEN <<105>> ELSE [k \in 1..(n - 3) |-> 95]
           buys  == <<BuyFactor(biomeScore)>> \o crowdBuy
                        \o [k \in 1..n |-> BuyFactor(scores[k])]
           sells == <<SellFactor(biomeScore)>> \o crowdSell
                        \o [k \in 1..n |-> SellFactor(scores[k])]
           related == SelectSeq([k \in 1..n |-> <<scores[k], OthersInHouse[k]>>],
                                LAMBDA pair : pair[1] \in {2, 1, -1, -2})
       IN  /\ SelectSeq(Computed.factors, LAMBDA f : f[3] = " biome")
                = IF biomeScore \in {2, 1, -1, -2}
                  THEN << <<TierWord(biomeScore), toTitleCase(biome), " biome">> >>
                  ELSE <<>>
           /\ SelectSeq(Computed.factors, LAMBDA f : f[3] = "")
                = [k \in 1..Len(related) |->
                    <<TierWord(related[k][1]),
                      IF related[k][2] \in npcs THEN NpcName(related[k][2])
                      ELSE related[k][2],
                      "">>]
           /\ Computed.buyPrice = ProductOf(buys, Len(buys))
           /\ Computed.sellPrice = ProductOf(sells, Len(sells))

\* C21 witness: the dryad lives in a biome no record names with the angler,
\* whom she hates, and an NPC her record does not mention
C21_Witness ==
    /\ lastOp.op = "calculateSingleNpcPrices"
    /\ lastOp.npc = "dryad"
    /\ placements[1].biome = "space"
    /\ OthersInHouse = <<"ghost", "angler">>
    /\ Computed.factors = << <<"Solitude bonus: Only ", "2", " neighbours">>,
                             <<"Hates ", NpcName("angler"), "">> >>
    /\ Computed.buyPrice = Times(FromHundredths(95), 112)
    /\ Computed.sellPrice = Times(FromHundredths(105), 89)

\* the houses of the layout whose id is the closest one below, then the
\* closest one above, the given id among all houses of the layout
AdjacentById(current, houseId) ==
    LET ids == IdsOf(current)
        below == {id \in ids : id < houseId /\ \A other \in ids : other < houseId => other <= id}
        above == {id \in ids : id > houseId /\ \A other \in ids : other > houseId => other >= id}
    IN  SelectSeq(current, LAMBDA house : house.id \in below)
        \o SelectSeq(current, LAMBDA house : house.id \in above)

\* C23: findNeighbors(houseId, layout) orders the houses by ascending id
\* whatever their order in the array and returns exactly those of the houses
\* at sorted index k-1 and k+1 that exist and have an occupant; an empty
\* adjacent house is skipped and not bridged; an unknown houseId yields no
\* neighbours
C23_FindNeighbors ==
    lastOp.op = "findNeighbors"
    => lastOp.kind =
        IF lastOp.house \in IdsOf(placements)
        THEN SelectSeq(AdjacentById(placements, lastOp.house),
                       LAMBDA house : Len(house.npcPrices) > 0)
        ELSE <<>>

\* C23 witness: the array holds C, A, B with ids A < B < C, B is empty and A
\* and C are occupied; A has no neighbours
C23_Witness ==
    /\ lastOp.op = "findNeighbors"
    /\ Len(placements) = 3
    /\ placements[1].id = 2 /\ Len(placements[1].npcPrices) = 1
    /\ placements[2].id = 0 /\ Len(placements[2].npcPrices) = 1
    /\ placements[3].id = 1 /\ Len(placements[3].npcPrices) = 0
    /\ lastOp.house = 0
    /\ lastOp.kind = <<>>

\* the multipliers, in hundredths, of the terms of a non-princess NPC that
\* come from its own house: biome, solitude or crowding, relationships
OwnHouseTerms(npc, house) ==
    LET others == SelectSeq(Occupants(house), LAMBDA other : other # npc)
        n == Len(others)
        biomeScore == getValueForBiome(npc, house.biome)
    IN  [buys  |-> <<BuyFactor(biomeScore)>>
                    \o (IF n < 3 THEN <<95>> ELSE [k \in 1..(n - 3) |-> 105])
                    \o [k \in 1..n |-> BuyFactor(getValueForNpc(npc, others[k]))],
         sells |-> <<SellFactor(biomeScore)>>
                    \o (IF n < 3 THEN <<105>> ELSE [k \in 1..(n - 3) |-> 95])
                    \o [k \in 1..n |-> SellFactor(getValueForNpc(npc, others[k]))]]

\* the multipliers of an external neighbour term: one per NPC of the occupied
\* houses adjacent by sorted id, at the weaker tier
AdjacentHouseTerms(npc, house) ==
    LET beside == findNeighbors(house.id, placements)
        others == OccupantsOfAll(beside, Len(beside))
        score(k) == getValueForNpc(npc, others[k])
    IN  [buys  |-> [k \in 1..Len(others) |->
                        IF score(k) > 0 THEN 94 ELSE IF score(k) < 0 THEN 106 ELSE 100],
         sells |-> [k \in 1..Len(others) |->
                        IF score(k) > 0 THEN 106 ELSE IF score(k) < 0 THEN 94 ELSE 100]]

\* the occupants the layout holds that the dataset knows, princess aside,
\* as <<house index, NPC>>
PricedOccupants ==
    { p \in UNION { { <<i, placements[i].npcPrices[j].npc>>
                      : j \in 1..Len(placements[i].npcPrices) }
                    : i \in 1..Len(placements) } :
        p[2] \in npcs /\ p[2] # "princess" }

Rounded(price) == FromHundredths(toFixed2(price))

\* buyPrice and sellPrice of an entry or of a per-NPC result
PricePair(r) == <<r.buyPrice, r.sellPrice>>

\* the same, each rounded to two decimals
RoundedPair(r) == <<Rounded(r.buyPrice), Rounded(r.sellPrice)>>

FromStoredPrices(house, cnt) ==
    /\ house.buyPrice = toFixed2(DivSmall(SumPrices(house.npcPrices, "buyPrice", cnt), cnt))
    /\ house.sellPrice = toFixed2(DivSmall(SumPrices(house.npcPrices, "sellPrice", cnt), cnt))
    /\ house.isPylonEligible =
        ( /\ cnt >= 2
          /\ \E j \in 1..cnt :
                /\ hasShop(house.npcPrices[j].npc)
                /\ LessEq(house.npcPrices[j].buyPrice, FromHundredths(90)) )

\* the stored prices of a non-princess occupant are the exact product of the
\* multipliers of its terms
HoldsProduct(info, own) ==
    PricePair(info) = <<ProductOf(own.buys, Len(own.buys)),
                        ProductOf(own.sells, Len(own.sells))>>

FromThousandths(t) == DivSmall(FromHundredths(t), 10)

\* h / 100 is a nearest two-decimal value of total / cnt:
\* cnt * (h - 0.5) / 100 <= total <= cnt * (h + 0.5) / 100
NearestHundredth(h, total, cnt) ==
    /\ LessEq(MulSmall(FromThousandths(10 * h - 5), cnt), total)
    /\ LessEq(total, MulSmall(FromThousandths(10 * h + 5), cnt))

\* C25: for every non-empty house the recomputed house buyPrice is the
\* arithmetic mean of its occupants' buy prices rounded to 2 decimals, and
\* the house sellPrice is the mean of their sell prices rounded to 2 decimals
C25_HouseAverages ==
    lastOp.op = "recompute" /\ lastOp.kind = "stored"
    => /\ NearestHundredth(placements[1].buyPrice,
                           SumPrices(placements[1].npcPrices, "buyPrice",
                                     Len(placements[1].npcPrices)),
                           Len(placements[1].npcPrices))
       /\ NearestHundredth(placements[1].sellPrice,
                           SumPrices(placements[1].npcPrices, "sellPrice",
                                     Len(placements[1].npcPrices)),
                           Len(placements[1].npcPrices))

\* C25 witness: the guide (0.836 / 1.197) and the merchant (0.83942 /
\* 1.17978) share a forest house, whose prices are 0.84 and 1.19
C25_Witness ==
    /\ lastOp.op = "recompute" /\ lastOp.kind = "stored"
    /\ npcData = RoyalJson
    /\ placements[1].biome = "forest"
    /\ Occupants(placements[1]) = <<"guide", "merchant">>
    /\ placements[1].npcPrices[1].buyPrice = Times(FromHundredths(88), 95)
    /\ placements[1].npcPrices[2].sellPrice = Times(Times(FromHundredths(106), 105), 106)
    /\ placements[1].buyPrice = 84
    /\ placements[1].sellPrice = 119

\* the layout with the same ids, biomes and ordered occupants whose stored
\* buyPrice, sellPrice, factors and isPylonEligible are those of fresh
\* houses and fresh entries
WithoutStoredValues(current) ==
    [i \in 1..Len(current) |->
        [NewHouse(current[i].id, current[i].biome) EXCEPT !.npcPrices =
            [j \in 1..Len(current[i].npcPrices) |->
                NewNpcPrice(current[i].npcPrices[j].npc)]]]

\* C26: the per-NPC and per-house results computed for a layout depend only
\* on the houses' ids, biomes and ordered occupant ids and on the dataset,
\* never on the values stored in the layout: the recompute effect computes
\* for the layout what it computes for the same layout without stored values
C26_IndependentOfStoredValues ==
    ~isLoading
    => updatedPlacements(placements) = updatedPlacements(WithoutStoredValues(placements))

\* C27: an NPC id that is not in the dataset, or an empty id, yields
\* buyPrice = 1.0, sellPrice = 1.0 and no factors whatever the house holds;
\* the other occupants are computed as usual and the unknown NPC counts as
\* their neighbour in the solitude and crowding terms
C27_UnknownNpc ==
    lastOp.op = "calculateSingleNpcPrices"
    => IF lastOp.npc = "" \/ lastOp.npc \notin DOMAIN npcData
       THEN /\ Computed.buyPrice = One
            /\ Computed.sellPrice = One
            /\ Computed.factors = <<>>
       ELSE /\ FactorsStarting("Solitude bonus: Only ") =
                    IF Len(OthersInHouse) < 3
                    THEN << <<"Solitude bonus: Only ", ToString(Len(OthersInHouse)),
                              " neighbours">> >>
                    ELSE <<>>
            /\ HoldsProduct(Computed, OwnHouseTerms(lastOp.npc, placements[1]))

\* C27 witness: an id the dataset does not know was computed in a forest
\* house it shares with the guide, the merchant and the empty id
C27_Witness ==
    /\ lastOp.op = "calculateSingleNpcPrices"
    /\ lastOp.npc = "ghost"
    /\ lastOp.npc \notin npcs
    /\ placements[1].biome = "forest"
    /\ OthersInHouse = <<"guide", "merchant", "">>
    /\ Computed.factors = <<>>
    /\ Computed.buyPrice = One
    /\ Computed.sellPrice = One

\* the place of a factor in the evaluation order, by its text: biome term,
\* solitude / overcrowding / princess solitude, princess love, relationship
FactorRank(f) ==
    CASE f[3] = " biome" -> 1
      [] f[3] = " neighbours" -> 2
      [] f[3] = ")" -> 3
      [] f[3] = "" -> 4

\* C28: the factors of every per-NPC result are in evaluation order: at most
\* one biome factor first, then at most one solitude, overcrowding or
\* princess solitude factor, then the princess-love factors, then the
\* relationship factors in the house order of the neighbours, at most one per
\* neighbour
C28_FactorOrder ==
    lastOp.op = "calculateSingleNpcPrices"
    => LET factors == Computed.factors
           ranked(rank) == SelectSeq(factors, LAMBDA f : FactorRank(f) = rank)
           names(rank) == [k \in 1..Len(ranked(rank)) |-> ranked(rank)[k][2]]
           inHouseOrder(rank) ==
                names(rank) = SelectSeq([k \in 1..Len(OthersInHouse) |->
                                            NpcName(OthersInHouse[k])],
                                        LAMBDA name : name \in Range(names(rank)))
       IN  /\ \A k \in 1..Len(factors), l \in 1..Len(factors) :
                k < l => FactorRank(factors[k]) <= FactorRank(factors[l])
           /\ Len(ranked(1)) <= 1
           /\ Len(ranked(2)) <= 1
           /\ inHouseOrder(3)
           /\ inHouseOrder(4)

\* C28 witness: the princess of the dataset with preferences has four
\* neighbours in the forest: one biome factor, the overcrowding factor, three
\* princess-love factors and two relationship factors
C28_Witness ==
    /\ lastOp.op = "calculateSingleNpcPrices"
    /\ lastOp.npc = "princess"
    /\ npcData = RoyalBiomeJson
    /\ placements[1].biome = "forest"
    /\ OthersInHouse = <<"angler", "nurse", "dryad", "guide">>
    /\ [k \in 1..Len(Computed.factors) |-> FactorRank(Computed.factors[k])]
            = <<1, 2, 3, 3, 3, 4, 4>>
    /\ Computed.factors[6] = <<"Dislikes ", NpcName("angler"), "">>
    /\ Computed.factors[7] = <<"Loves ", NpcName("guide"), "">>

\* a pass of the recompute effect over the layout finds no change and so
\* does not call setPlacements
NoFurtherStore(layout) == ~hasChanges(updatedPlacements(layout), layout)

\* C29: the recompute effect reaches a fixed point: whatever layout a
\* mutation left, after the first pass of the effect, which calls
\* setPlacements at most once, a second pass over the layout finds no change,
\* so no update loop occurs
C29_RecomputeFixedPoint ==
    (~isLoading /\ Len(placements) > 0)
    => NoFurtherStore(Recomputed(updatedPlacements(placements), placements))

\* C29 witness: the effect has just stored recomputed prices for a house
\* with an occupant, a commit is pending, and the pass that follows it finds
\* no change
C29_Witness ==
    /\ pc = "effects"
    /\ lastOp.op = "effects"
    /\ ~isLoading
    /\ \E i \in 1..Len(placements) :
        /\ Len(placements[i].npcPrices) > 0
        /\ placements[i].buyPrice # 100
        /\ placements[i].npcPrices[1].factors # <<>>
    /\ NoFurtherStore(placements)

\* every NPC of the dataset is in the available row and in no house, or in
\* exactly one house and not in the row
AvailableOrPlaced ==
    \A npc \in npcs :
        Cardinality(PositionsOf(placements, npc)) =
            IF npc \in availableNPCs(placements) THEN 0 ELSE 1

\* placeNPC on an existing house takes the NPC out of the available row;
\* removeNPC of an occupant, clearing a house and removeHouse put every
\* affected NPC into it
MovesBetweenRowAndHouses ==
    LET houseId == lastOp'.house
        npc == lastOp'.npc
        occupants == Range(Occupants(placements[IndexOfHouse(placements, houseId)]))
    IN  HouseExists(placements, houseId)
        => /\ Called("placeNPC")
                => /\ npc \notin availableNPCs(placements')
                   /\ HouseOf(placements', npc) = houseId
           /\ (Called("removeNPC") /\ npc # "" /\ npc \in occupants)
                => npc \in availableNPCs(placements')
           /\ (Called("removeNPC") /\ npc = "")
                => occupants \subseteq availableNPCs(placements')
           /\ Called("removeHouse")
                => occupants \subseteq availableNPCs(placements')

\* C30: in every reachable state each NPC of the dataset is either shown in
\* the available-NPC row or is an occupant of exactly one house, never both
\* and never neither; placeNPC moves it from available to placed, and
\* removeNPC, clearing a house and removeHouse return every affected NPC to
\* the available row
C30_AvailableOrPlaced ==
    /\ []AvailableOrPlaced
    /\ [][MovesBetweenRowAndHouses]_vars

\* C30 witness: the guide was just placed from the row into a house while
\* the merchant is still in the row
C30_Witness ==
    /\ lastOp.op = "placeNPC"
    /\ lastOp.kind = "new"
    /\ lastOp.npc = "guide"
    /\ placedNPCs(placements) = <<"guide">>
    /\ availableNPCs(placements) = {"merchant"}

====
